---- MODULE Spec2Model ----
(***************************************************************************)
(* Model of coursesearch.py: the rule-based intent parser (normalize_text, *)
(* extract_keywords, extract_level, extract_modality, parse_query_noai),   *)
(* the query-variant generator (make_query_variants), the deep-link        *)
(* builder (search_url) and the Streamlit script that drives them.         *)
(*                                                                         *)
(* Python str values are TLA+ strings; a character is a string of length   *)
(* one, s[i] is SubSeq(s, i, i).  Python lists are sequences.  The texts   *)
(* considered are over printable ASCII (the backquote excepted) plus tab,  *)
(* newline, carriage return and form feed.                                 *)
(***************************************************************************)
EXTENDS Integers, Sequences, FiniteSets, TLC

VARIABLES
    \* widget state of the Streamlit session (coursesearch.py:209-233)
    user_text, training_mode, platforms, level_pref,
    must_have_cert, short_format, free_only, go,
    \* what the latest run of the script produced (coursesearch.py:242-333)
    parsed, effective, chips, variants, effective_platforms, links, warnings,
    \* a single call of one of the module's functions: position, inputs, result
    pc, arg, ret

widgets == <<user_text, training_mode, platforms, level_pref,
             must_have_cert, short_format, free_only>>
outputs == <<parsed, effective, chips, variants, effective_platforms, links, warnings>>
appvars == <<widgets, go, outputs>>
callvars == <<pc, arg, ret>>
vars == <<appvars, callvars>>

-----------------------------------------------------------------------------
(* Characters and Python's str methods                                     *)

\* Python's None (a value no str equals)
None == "<None>"

Ch(s, i) == SubSeq(s, i, i)

\* the characters of a string, as a set
CharsOf(s) == {Ch(s, i) : i \in 1..Len(s)}

\* the printable ASCII characters below and above the backquote (which a
\* TLA+ string cannot hold): code points 32..95 and 97..126, in order
PrintableLo == " !\"#$%&'()*+,-./0123456789:;<=>?@ABCDEFGHIJKLMNOPQRSTUVWXYZ[\\]^_"
PrintableHi == "abcdefghijklmnopqrstuvwxyz{|}~"

UpperLetters == "ABCDEFGHIJKLMNOPQRSTUVWXYZ"
LowerLetters == "abcdefghijklmnopqrstuvwxyz"

\* ord(c) for the characters considered
OrdTable ==
    [c \in CharsOf(PrintableLo) \cup CharsOf(PrintableHi) \cup {"\t", "\n", "\f", "\r"} |->
        CASE c = "\t" -> 9
          [] c = "\n" -> 10
          [] c = "\f" -> 12
          [] c = "\r" -> 13
          [] c \in CharsOf(PrintableHi) ->
                96 + (CHOOSE i \in 1..Len(PrintableHi) : Ch(PrintableHi, i) = c)
          [] OTHER ->
                31 + (CHOOSE i \in 1..Len(PrintableLo) : Ch(PrintableLo, i) = c)]

Ord(c) == OrdTable[c]

UpperSet == CharsOf(UpperLetters)
LowerSet == CharsOf(LowerLetters)
DigitSet == CharsOf("0123456789")

IsUpper(c) == c \in UpperSet
IsLower(c) == c \in LowerSet
IsAlpha(c) == IsUpper(c) \/ IsLower(c)
IsDigit(c) == c \in DigitSet
\* the characters str.strip() removes and the regex class \s matches
IsSpace(c) == c \in {" ", "\t", "\n", "\r", "\f"}

\* the lower-case and the upper-case form of each letter
ToLower == [c \in UpperSet |->
               Ch(LowerLetters, CHOOSE i \in 1..Len(UpperLetters) : Ch(UpperLetters, i) = c)]
ToUpper == [c \in LowerSet |->
               Ch(UpperLetters, CHOOSE i \in 1..Len(LowerLetters) : Ch(LowerLetters, i) = c)]

LowerCh(c) == IF IsUpper(c) THEN ToLower[c] ELSE c
UpperCh(c) == IF IsLower(c) THEN ToUpper[c] ELSE c

LowerAt(s, i) == LowerCh(Ch(s, i))

TitleAt(s, i) ==
    IF i > 1 /\ IsAlpha(Ch(s, i - 1)) THEN LowerCh(Ch(s, i)) ELSE UpperCh(Ch(s, i))

CollapseAt(s, i) ==
    IF IsSpace(Ch(s, i))
    THEN (IF i > 1 /\ IsSpace(Ch(s, i - 1)) THEN "" ELSE " ")
    ELSE Ch(s, i)

ReplaceUnderscoreAt(s, i) == IF Ch(s, i) = "_" THEN " " ELSE Ch(s, i)

HexDigits == "0123456789ABCDEF"

\* "%XX" for the byte n
PercentByte(n) == "%" \o Ch(HexDigits, (n \div 16) + 1) \o Ch(HexDigits, (n % 16) + 1)

\* the characters urllib.parse.quote never escapes
IsAlwaysSafe(c) == IsAlpha(c) \/ IsDigit(c) \/ c \in {"_", ".", "-", "~"}

\* QuotePlusCh with the ampersand passed through unescaped
QuotePlusCh_AmpersandSafe(c) ==
    IF IsAlwaysSafe(c) \/ c = "&" THEN c
    ELSE IF c = " " THEN "+"
    ELSE PercentByte(Ord(c))

QuotePlusCh(c) ==
    IF IsAlwaysSafe(c) THEN c
    ELSE IF c = " " THEN "+"
    ELSE PercentByte(Ord(c))

QuotePlusAt(s, i) == QuotePlusCh(Ch(s, i))

\* what the i-th character of s becomes under a character-wise rewriting
RewriteAt(how, s, i) ==
    CASE how = "lower" -> LowerAt(s, i)
      [] how = "title" -> TitleAt(s, i)
      [] how = "collapse" -> CollapseAt(s, i)
      [] how = "replace_underscore" -> ReplaceUnderscoreAt(s, i)
      [] how = "quote_plus" -> QuotePlusAt(s, i)

RECURSIVE Rewrite(_, _, _, _)
\* RewriteAt(how, s, lo) \o ... \o RewriteAt(how, s, hi)
Rewrite(how, s, lo, hi) ==
    IF lo > hi THEN ""
    ELSE IF lo = hi THEN RewriteAt(how, s, lo)
    ELSE LET mid == (lo + hi) \div 2
         IN  Rewrite(how, s, lo, mid) \o Rewrite(how, s, mid + 1, hi)

\* str.lower()
Lower(s) == Rewrite("lower", s, 1, Len(s))

\* str.title(): a letter is upper-cased when the previous character is not a
\* letter, lower-cased otherwise
Title(s) == Rewrite("title", s, 1, Len(s))

\* s.replace("_", " ")
ReplaceUnderscores(s) == Rewrite("replace_underscore", s, 1, Len(s))

\* urllib.parse.quote_plus(s)
quote_plus(s) == Rewrite("quote_plus", s, 1, Len(s))

\* str.strip()
Strip(s) ==
    LET kept == {i \in 1..Len(s) : ~IsSpace(Ch(s, i))}
    IN  IF kept = {} THEN ""
        ELSE SubSeq(s, CHOOSE i \in kept : \A j \in kept : i <= j,
                       CHOOSE i \in kept : \A j \in kept : i >= j)

\* the Python expression  w in s  for two str values
Contains(s, w) ==
    \E i \in 1..(Len(s) - Len(w) + 1) : SubSeq(s, i, i + Len(w) - 1) = w

RECURSIVE JoinFrom(_, _, _)
JoinFrom(sep, parts, i) ==
    IF i > Len(parts) THEN ""
    ELSE IF i = Len(parts) THEN parts[i]
    ELSE parts[i] \o sep \o JoinFrom(sep, parts, i + 1)

\* sep.join(parts)
Join(sep, parts) == JoinFrom(sep, parts, 1)

\* str.isdigit()
IsDigitStr(s) == Len(s) > 0 /\ \A i \in 1..Len(s) : IsDigit(Ch(s, i))

\* the elements of a list
Range(seq) == {seq[i] : i \in 1..Len(seq)}

NoDuplicates(seq) == \A i, j \in 1..Len(seq) : seq[i] = seq[j] => i = j

\* list[a:b], 0-based half-open, clipped to the list
Slice(seq, a, b) ==
    LET hi == IF b < Len(seq) THEN b ELSE Len(seq)
    IN  IF a >= hi THEN <<>> ELSE SubSeq(seq, a + 1, hi)

\* a Python dict as the list of its (key, value) pairs in insertion order
DictHas(d, k) == \E i \in 1..Len(d) : d[i][1] = k

DictGet(d, k) == d[CHOOSE i \in 1..Len(d) : d[i][1] = k][2]

\* d[k] = v: replaces the value in place, or inserts the key at the end
DictSet(d, k, v) ==
    IF DictHas(d, k)
    THEN [i \in 1..Len(d) |-> IF d[i][1] = k THEN <<k, v>> ELSE d[i]]
    ELSE Append(d, <<k, v>>)

-----------------------------------------------------------------------------
(* Lightweight keyword extraction                                          *)

STOPWORDS ==
    { "a", "an", "the", "to", "for", "of", "on", "in", "with", "and", "or", "vs",
      "from", "learn", "course", "tutorial", "training", "class",
      "i", "me", "my", "we", "our", "us", "you", "your", "they", "their", "them",
      "it", "its", "is", "are", "was", "were", "be", "been", "being",
      "about", "into", "over", "under", "by", "at", "as", "how", "what", "which",
      "who", "where", "when", "why",
      "this", "that", "those", "these", "want", "need", "looking", "seeking",
      "search", "find", "best", "top",
      "weekend", "weekday", "evening", "morning", "hands-on", "hands", "free",
      "cheap", "certificate" }

\* the dicts in declaration order, which is the order .items() iterates in
LEVEL_WORDS ==
    << [key |-> "beginner",
        words |-> {"beginner", "intro", "introduction", "foundations", "starter", "basic"}],
       [key |-> "intermediate",
        words |-> {"intermediate", "mid", "some experience"}],
       [key |-> "advanced",
        words |-> {"advanced", "expert", "pro", "senior", "specialist"}] >>

MODALITY_WORDS ==
    << [key |-> "online_course",
        words |-> {"online", "self-paced", "recorded", "asynchronous", "course"}],
       [key |-> "online_training",
        words |-> {"live", "instructor-led", "cohort", "bootcamp", "workshop", "training"}],
       [key |-> "onsite_training",
        words |-> {"onsite", "on-site", "in-person", "at office", "physical", "classroom"}] >>

\* re.sub(r"\s+", " ", s).strip(): every run of whitespace becomes one space
normalize_text(s) == Strip(Rewrite("collapse", s, 1, Len(s)))

RECURSIVE LastCategory(_, _, _)
\* FirstCategory with the scan running on after a hit: the last matching
\* category wins
LastCategory(dict, tl, i) ==
    IF i > Len(dict) THEN None
    ELSE LET later == LastCategory(dict, tl, i + 1)
         IN  IF later # None THEN later
             ELSE IF \E w \in dict[i].words : Contains(tl, w) THEN dict[i].key
             ELSE None

RECURSIVE FirstCategory(_, _, _)
FirstCategory(dict, tl, i) ==
    IF i > Len(dict) THEN None
    ELSE IF \E w \in dict[i].words : Contains(tl, w) THEN dict[i].key
    ELSE FirstCategory(dict, tl, i + 1)

extract_level(text) == FirstCategory(LEVEL_WORDS, Lower(text), 1)

extract_modality(text) == FirstCategory(MODALITY_WORDS, Lower(text), 1)

\* a character of the regex class [A-Za-z0-9\-\+/#]
IsTokenChar(c) == IsAlpha(c) \/ IsDigit(c) \/ c \in {"-", "+", "/", "#"}

RECURSIVE FindTokens(_, _)
\* re.findall(r"[A-Za-z0-9\-\+/#]+", s) from position i on: the maximal
\* runs of token characters, left to right
FindTokens(s, i) ==
    LET starts == {j \in i..Len(s) : IsTokenChar(Ch(s, j))}
    IN  IF starts = {} THEN <<>>
        ELSE LET b == CHOOSE j \in starts : \A k \in starts : j <= k
                 stops == {j \in b..Len(s) : ~IsTokenChar(Ch(s, j))}
                 e == IF stops = {} THEN Len(s)
                      ELSE (CHOOSE j \in stops : \A k \in stops : j <= k) - 1
             IN  <<SubSeq(s, b, e)>> \o FindTokens(s, e + 1)

FALLBACK_KEYWORDS == <<"data", "analytics", "python", "ai">>

RECURSIVE PickTokens_NoSeen(_, _, _, _)
\* PickTokens without the test  t not in seen
PickTokens_NoSeen(tokens, i, picked, top_k) ==
    IF i > Len(tokens) THEN picked
    ELSE LET t == tokens[i]
         IN  IF t \in STOPWORDS \/ IsDigitStr(t) \/ Len(t) <= 2
             THEN PickTokens_NoSeen(tokens, i + 1, picked, top_k)
             ELSE LET picked2 == Append(picked, t)
                  IN  IF Len(picked2) >= top_k THEN picked2
                      ELSE PickTokens_NoSeen(tokens, i + 1, picked2, top_k)

RECURSIVE PickTokens(_, _, _, _)
\* the for loop of extract_keywords; seen is the set of picked's elements
PickTokens(tokens, i, picked, top_k) ==
    IF i > Len(tokens) THEN picked
    ELSE LET t == tokens[i]
         IN  IF t \in STOPWORDS \/ IsDigitStr(t) \/ Len(t) <= 2
             THEN PickTokens(tokens, i + 1, picked, top_k)
             ELSE LET picked2 == IF t \notin Range(picked)
                                 THEN Append(picked, t) ELSE picked
                  IN  IF Len(picked2) >= top_k THEN picked2
                      ELSE PickTokens(tokens, i + 1, picked2, top_k)

\* extract_keywords tokenizing text instead of text.lower()
extract_keywords_NoLower(text, top_k) ==
    LET picked == PickTokens(FindTokens(text, 1), 1, <<>>, top_k)
    IN  IF picked = <<>> THEN FALLBACK_KEYWORDS ELSE picked

extract_keywords(text, top_k) ==
    LET picked == PickTokens(FindTokens(Lower(text), 1), 1, <<>>, top_k)
    IN  IF picked = <<>> THEN FALLBACK_KEYWORDS ELSE picked

\* the pair (topic, skills)
guess_topic_and_skills(keywords) ==
    IF keywords = <<>> THEN <<"", <<>>>>
    ELSE <<Title(Join(" ", Slice(keywords, 0, 2))), Slice(keywords, 2, 6)>>

ParsedIntent(topic, subtopics, skills, level, modality, extras, keywords) ==
    [topic |-> topic, subtopics |-> subtopics, skills |-> skills, level |-> level,
     modality |-> modality, extras |-> extras, keywords |-> keywords]

DEFAULT_TOP_K == 8
PARSE_TOP_K == 10

parse_query_noai(raw) ==
    LET text == normalize_text(raw)
        kws == extract_keywords(text, PARSE_TOP_K)
        ts == guess_topic_and_skills(kws)
        tl == Lower(text)
        e1 == IF Contains(tl, "certificate")
              THEN DictSet(<<>>, "certificate", "required") ELSE <<>>
        e2 == IF \E w \in {"short", "crash", "weekend"} : Contains(tl, w)
              THEN DictSet(e1, "duration", "short") ELSE e1
        e3 == IF \E w \in {"free", "no cost", "open"} : Contains(tl, w)
              THEN DictSet(e2, "price", "free_preferred") ELSE e2
    IN  ParsedIntent(ts[1], <<>>, ts[2], extract_level(text),
                     extract_modality(text), e3, kws)

-----------------------------------------------------------------------------
(* Deep-link builders                                                      *)

\* [p for p in parts if p]
RECURSIVE NonEmptyParts(_, _)
NonEmptyParts(parts, i) ==
    IF i > Len(parts) THEN <<>>
    ELSE (IF parts[i] = "" THEN <<>> ELSE <<parts[i]>>) \o NonEmptyParts(parts, i + 1)

qjoin(parts) == Strip(Join(" ", NonEmptyParts(parts, 1)))

search_url(platform, query) ==
    LET q == quote_plus(query)
    IN  CASE platform = "Coursera" -> "https://www.coursera.org/search?query=" \o q
          [] platform = "Udemy" -> "https://www.udemy.com/courses/search/?q=" \o q
          [] platform = "Simpliv" -> "https://www.simplivlearning.com/search?query=" \o q
          [] platform = "Educative" -> "https://www.educative.io/search?query=" \o q
          [] OTHER -> "#"

\* VariantCandidates without the candidate made of the keyword list alone
VariantCandidates_NoKeywords(pi, raw_text) ==
    LET base_kw == IF pi.keywords # <<>> THEN pi.keywords
                   ELSE extract_keywords(raw_text, DEFAULT_TOP_K)
    IN  (IF pi.topic # "" THEN <<qjoin(<<pi.topic>> \o pi.skills)>> ELSE <<>>)
        \o (IF pi.level # None /\ pi.level # ""
            THEN <<qjoin(base_kw \o <<pi.level>>)>> ELSE <<>>)
        \o <<Strip(raw_text)>>

\* the list `variants` of make_query_variants before deduplication
VariantCandidates(pi, raw_text) ==
    LET base_kw == IF pi.keywords # <<>> THEN pi.keywords
                   ELSE extract_keywords(raw_text, DEFAULT_TOP_K)
    IN  (IF pi.topic # "" THEN <<qjoin(<<pi.topic>> \o pi.skills)>> ELSE <<>>)
        \o <<qjoin(base_kw)>>
        \o (IF pi.level # None /\ pi.level # ""
            THEN <<qjoin(base_kw \o <<pi.level>>)>> ELSE <<>>)
        \o <<Strip(raw_text)>>

RECURSIVE DedupVariants_CaseSensitive(_, _, _, _)
\* DedupVariants comparing v.strip() instead of v.strip().lower()
DedupVariants_CaseSensitive(cands, i, out, seen) ==
    IF i > Len(cands) THEN out
    ELSE LET v == cands[i]
             v2 == Strip(v)
         IN  IF v2 # "" /\ v2 \notin seen
             THEN DedupVariants_CaseSensitive(cands, i + 1, Append(out, v), seen \cup {v2})
             ELSE DedupVariants_CaseSensitive(cands, i + 1, out, seen)

RECURSIVE DedupVariants(_, _, _, _)
\* the deduplicating for loop of make_query_variants
DedupVariants(cands, i, out, seen) ==
    IF i > Len(cands) THEN out
    ELSE LET v == cands[i]
             v2 == Lower(Strip(v))
         IN  IF v2 # "" /\ v2 \notin seen
             THEN DedupVariants(cands, i + 1, Append(out, v), seen \cup {v2})
             ELSE DedupVariants(cands, i + 1, out, seen)

MAX_VARIANTS == 4

make_query_variants(pi, raw_text) ==
    Slice(DedupVariants(VariantCandidates(pi, raw_text), 1, <<>>, {}), 0, MAX_VARIANTS)

-----------------------------------------------------------------------------
(* The Streamlit script                                                    *)

MODES == <<"Online Courses", "Online Trainings (Simpliv)",
           "Onsite Trainings (coming soon)", "Mixed / Any">>

PLATFORMS == <<"Coursera", "Udemy", "Simpliv", "Educative">>

LEVEL_PREFS == <<"Any", "Beginner", "Intermediate", "Advanced">>

\* mode_to_modality.get(training_mode, "any")
mode_to_modality(mode) ==
    CASE mode = "Online Courses" -> "online_course"
      [] mode = "Online Trainings (Simpliv)" -> "online_training"
      [] mode = "Onsite Trainings (coming soon)" -> "onsite_training"
      [] OTHER -> "any"

ONSITE_WARNING == "Onsite trainings directory is coming soon. Showing online alternatives for now."
EMPTY_TEXT_WARNING == "Please type what you're looking for (one sentence is fine)."

\* "Apply sidebar prefs": the dict extras after the four overrides
SidebarExtras(parsed_extras, lvl, cert, short, free) ==
    LET e1 == IF lvl # "Any" THEN DictSet(parsed_extras, "level", Lower(lvl))
              ELSE parsed_extras
        e2 == IF cert THEN DictSet(e1, "certificate", "required") ELSE e1
        e3 == IF short THEN DictSet(e2, "duration", "short") ELSE e2
    IN  IF free THEN DictSet(e3, "price", "free_preferred") ELSE e3

\* parsed.modality or mode_to_modality.get(training_mode, "any")
EffectiveModality(p, mode) ==
    IF p.modality # None /\ p.modality # "" THEN p.modality ELSE mode_to_modality(mode)

\* the (label, value) pairs of the search summary
SummaryChips(p, modality, extras) ==
    (IF p.topic # "" THEN << <<"Topic", p.topic>> >> ELSE <<>>)
    \o (IF p.skills # <<>>
        THEN << <<"Skills", Join(", ", Slice(p.skills, 0, 5))>> >> ELSE <<>>)
    \o (IF p.level # None /\ p.level # ""
        THEN << <<"Level (auto)", p.level>> >> ELSE <<>>)
    \o (IF modality # None /\ modality # "" /\ modality # "any"
        THEN << <<"Modality", Title(ReplaceUnderscores(modality))>> >> ELSE <<>>)
    \o [i \in 1..Len(extras) |-> <<Title(extras[i][1]), extras[i][2]>>]

\* "Add level/modality hints to keywords": the list kw
NudgedKeywords(p, modality, extras) ==
    LET kw == p.keywords
        kw1 == IF DictHas(extras, "level") /\ DictGet(extras, "level") \notin Range(kw)
               THEN Append(kw, DictGet(extras, "level")) ELSE kw
    IN  IF modality # None /\ modality # "" /\ modality # "any"
        THEN CASE modality = "online_training" ->
                      kw1 \o <<"live", "instructor-led", "workshop">>
               [] modality = "online_course" -> kw1 \o <<"online", "self-paced">>
               [] modality = "onsite_training" -> kw1 \o <<"onsite", "in-person">>
               [] OTHER -> kw1
        ELSE kw1

\* the ParsedIntent the script hands to make_query_variants
EffectiveIntent(p, modality, extras) ==
    ParsedIntent(p.topic, <<>>, p.skills, p.level, modality, extras,
                 NudgedKeywords(p, modality, extras))

RECURSIVE FilterPlatforms(_, _, _)
\* [p for p in plats if p in keep]
FilterPlatforms(plats, keep, i) ==
    IF i > Len(plats) THEN <<>>
    ELSE (IF plats[i] \in keep THEN <<plats[i]>> ELSE <<>>)
             \o FilterPlatforms(plats, keep, i + 1)

\* EffectivePlatforms without the two mode branches
EffectivePlatforms_IgnoreMode(mode, plats) == plats

EffectivePlatforms(mode, plats) ==
    CASE mode = "Online Trainings (Simpliv)" -> FilterPlatforms(plats, {"Simpliv"}, 1)
      [] mode = "Onsite Trainings (coming soon)" ->
             FilterPlatforms(plats, {"Coursera", "Udemy", "Simpliv", "Educative"}, 1)
      [] OTHER -> plats

\* one card per query variant: its number, its column and its links
LinkCards(vs, eff) ==
    [i \in 1..Len(vs) |->
        [variant |-> i,
         column |-> IF i % 2 # 0 THEN "col1" ELSE "col2",
         qv |-> vs[i],
         links |-> [j \in 1..Len(eff) |->
                      LET url == search_url(eff[j], vs[i])
                      IN  [pf |-> eff[j], url |-> url,
                           markdown |-> "- [" \o eff[j] \o "](" \o url \o ")"]]]]

-----------------------------------------------------------------------------
(* Input domains                                                           *)

MaxAppWords == 1
MaxWords == 3
MaxTopK == 3
MaxKw == 2
MaxQueryLen == 2

\* the lists of at most n elements of W
ListsUpTo(W, n) == UNION {[1..k -> W] : k \in 0..n}

RECURSIVE StringsUpTo(_, _)
\* the strings of at most n characters of C
StringsUpTo(C, n) ==
    IF n = 0 THEN {""}
    ELSE LET shorter == StringsUpTo(C, n - 1)
         IN  shorter \cup {s \o c : s \in shorter, c \in C}

\* the texts of at most n words of W, separated by single spaces
TextsOf(W, n) == {Join(" ", ws) : ws \in ListsUpTo(W, n)}

\* what the user may type into the text area
AppTexts == TextsOf({"Advanced", "live"}, MaxAppWords) \cup {" \n"}

-----------------------------------------------------------------------------
(* The Streamlit session: every widget interaction reruns the script       *)

NoCall == pc = "idle" /\ arg = <<>> /\ ret = <<>>

\* the session as loaded: the widgets' defaults, nothing rendered
SessionIdle ==
    /\ user_text = ""
    /\ training_mode = MODES[1]
    /\ platforms = PLATFORMS
    /\ level_pref = LEVEL_PREFS[1]
    /\ must_have_cert = FALSE
    /\ short_format = FALSE
    /\ free_only = FALSE
    /\ go = FALSE
    /\ parsed = <<>>
    /\ effective = <<>>
    /\ chips = <<>>
    /\ variants = <<>>
    /\ effective_platforms = <<>>
    /\ links = <<>>
    /\ warnings = <<>>

Init == SessionIdle /\ NoCall

\* PipelineRuns testing user_text instead of user_text.strip()
PipelineRuns_NoStrip(g, text) == g /\ text # ""

\* if go and user_text.strip():
PipelineRuns(g, text) == g /\ Strip(text) # ""

\* nothing of the results section is rendered; w are the warnings shown
RenderNothing(w) ==
    /\ parsed' = <<>>
    /\ effective' = <<>>
    /\ chips' = <<>>
    /\ variants' = <<>>
    /\ effective_platforms' = <<>>
    /\ links' = <<>>
    /\ warnings' = w

\* the body of  if go and user_text.strip():  statement by statement; a
\* name the script binds is bound here, and the lists parsed and effective
\* hold the ParsedIntent made by parse_query_noai and the one handed to
\* make_query_variants
RunPipeline(text, mode, plats, lvl, cert, short, free) ==
    \E p \in {parse_query_noai(text)} :
    \E extras \in {SidebarExtras(p.extras, lvl, cert, short, free)} :
    \E modality \in {EffectiveModality(p, mode)} :
    \E eff \in {EffectiveIntent(p, modality, extras)} :
    \E vs \in {make_query_variants(eff, text)} :
    \E ep \in {EffectivePlatforms(mode, plats)} :
        /\ parsed' = <<p>>
        /\ effective' = <<eff>>
        /\ chips' = SummaryChips(p, modality, extras)
        /\ variants' = vs
        /\ effective_platforms' = ep
        /\ links' = LinkCards(vs, ep)
        /\ warnings' = IF mode = "Onsite Trainings (coming soon)"
                       THEN <<ONSITE_WARNING>> ELSE <<>>

\* one run of the script, top to bottom, on the widget values given; the
\* button reads True only in the run its click triggers
Rerun(g, text, mode, plats, lvl, cert, short, free) ==
    /\ go' = g
    /\ user_text' = text
    /\ training_mode' = mode
    /\ platforms' = plats
    /\ level_pref' = lvl
    /\ must_have_cert' = cert
    /\ short_format' = short
    /\ free_only' = free
    /\ IF PipelineRuns(g, text)
       THEN RunPipeline(text, mode, plats, lvl, cert, short, free)
       ELSE IF g THEN RenderNothing(<<EMPTY_TEXT_WARNING>>)
       ELSE RenderNothing(<<>>)
    /\ UNCHANGED callvars

SelectMode(m) ==
    /\ m # training_mode
    /\ Rerun(FALSE, user_text, m, platforms, level_pref,
             must_have_cert, short_format, free_only)

TogglePlatform(p) ==
    LET selected == IF p \in Range(platforms) THEN Range(platforms) \ {p}
                    ELSE Range(platforms) \cup {p}
    IN  Rerun(FALSE, user_text, training_mode, FilterPlatforms(PLATFORMS, selected, 1),
              level_pref, must_have_cert, short_format, free_only)

SelectLevel(l) ==
    /\ l # level_pref
    /\ Rerun(FALSE, user_text, training_mode, platforms, l,
             must_have_cert, short_format, free_only)

ToggleCertificate ==
    Rerun(FALSE, user_text, training_mode, platforms, level_pref,
          ~must_have_cert, short_format, free_only)

ToggleShortFormat ==
    Rerun(FALSE, user_text, training_mode, platforms, level_pref,
          must_have_cert, ~short_format, free_only)

ToggleFreeOnly ==
    Rerun(FALSE, user_text, training_mode, platforms, level_pref,
          must_have_cert, short_format, ~free_only)

EditText(t) ==
    /\ t # user_text
    /\ Rerun(FALSE, t, training_mode, platforms, level_pref,
             must_have_cert, short_format, free_only)

PressGo ==
    Rerun(TRUE, user_text, training_mode, platforms, level_pref,
          must_have_cert, short_format, free_only)

Next ==
    \/ \E m \in Range(MODES) : SelectMode(m)
    \/ \E p \in Range(PLATFORMS) : TogglePlatform(p)
    \/ \E l \in Range(LEVEL_PREFS) : SelectLevel(l)
    \/ ToggleCertificate
    \/ ToggleShortFormat
    \/ ToggleFreeOnly
    \/ \E t \in AppTexts : EditText(t)
    \/ PressGo

Spec == Init /\ [][Next]_vars

-----------------------------------------------------------------------------
(* Single calls of the module's functions on inputs drawn from the domains *)

\* the call returns v
Return(v) ==
    /\ pc' = "done"
    /\ ret' = v
    /\ UNCHANGED <<appvars, arg>>

\* extract_keywords(text, top_k)
KeywordWords == {"the", "AI", "42", "python", "Python", "c++"}
KeywordTexts == TextsOf(KeywordWords, MaxWords)

InitKeywords ==
    /\ SessionIdle
    /\ pc = "extract_keywords"
    /\ arg \in [text : KeywordTexts, top_k : 0..MaxTopK]
    /\ ret = <<>>

CallExtractKeywords ==
    /\ pc = "extract_keywords"
    /\ Return(extract_keywords(arg.text, arg.top_k))

SpecKeywords == InitKeywords /\ [][CallExtractKeywords]_vars

\* parse_query_noai(user_text)
EXAMPLE_QUERY == "Weekend crash course on Generative AI for product managers, case studies, no coding, certificate."
ParseWords == {"Weekend", "certificate.", "AI", "python,", "for"}
ParseTexts == TextsOf(ParseWords, MaxWords) \cup {EXAMPLE_QUERY}

InitParse ==
    /\ SessionIdle
    /\ pc = "parse_query_noai"
    /\ arg \in [user_text : ParseTexts]
    /\ ret = <<>>

CallParseQuery ==
    /\ pc = "parse_query_noai"
    /\ Return(parse_query_noai(arg.user_text))

SpecParse == InitParse /\ [][CallParseQuery]_vars

\* extract_level(text) and extract_modality(text)
ClassifyWords == {"Intro", "MIDDLE", "expert", "product", "Online", "workshop",
                  "on-site", "python"}
ClassifyTexts == TextsOf(ClassifyWords, MaxWords)

InitClassify ==
    /\ SessionIdle
    /\ pc = "classify"
    /\ arg \in [text : ClassifyTexts]
    /\ ret = <<>>

CallExtractLevel ==
    /\ pc = "classify"
    /\ Return([fn |-> "extract_level", value |-> extract_level(arg.text)])

CallExtractModality ==
    /\ pc = "classify"
    /\ Return([fn |-> "extract_modality", value |-> extract_modality(arg.text)])

NextClassify == CallExtractLevel \/ CallExtractModality

SpecClassify == InitClassify /\ [][NextClassify]_vars

\* make_query_variants(pi, raw_text): the keyword lists are lists of tokens,
\* as extract_keywords and the script build them (the empty list included)
VariantTokens == {"python", "finance", "beginner"}
VariantKeywords == ListsUpTo(VariantTokens, MaxKw)
VariantRawTexts == {"", " ", "python finance", "PYTHON", " Python  for finance\n"}
VariantIntents ==
    {ParsedIntent(topic, <<>>, skills, level, None, <<>>, kws) :
        topic \in {"", "Python", "Python Finance"},
        skills \in {<<>>, <<"finance">>},
        level \in {None, "beginner"},
        kws \in VariantKeywords}

InitVariants ==
    /\ SessionIdle
    /\ pc = "make_query_variants"
    /\ arg \in [pi : VariantIntents, raw_text : VariantRawTexts]
    /\ ret = <<>>

CallMakeQueryVariants ==
    /\ pc = "make_query_variants"
    /\ Return(make_query_variants(arg.pi, arg.raw_text))

SpecVariants == InitVariants /\ [][CallMakeQueryVariants]_vars

\* search_url(platform, query)
QueryChars == {"a", "Z", "7", " ", "&", "+", "%", "-", "/", "=", "\n"}
Queries == StringsUpTo(QueryChars, MaxQueryLen)
PlatformIds == Range(PLATFORMS) \cup {"edX", "coursera", ""}

InitSearchUrl ==
    /\ SessionIdle
    /\ pc = "search_url"
    /\ arg \in [platform : PlatformIds, query : Queries]
    /\ ret = <<>>

CallSearchUrl ==
    /\ pc = "search_url"
    /\ Return(search_url(arg.platform, arg.query))

SpecSearchUrl == InitSearchUrl /\ [][CallSearchUrl]_vars

-----------------------------------------------------------------------------
(* Properties                                                              *)

Max(a, b) == IF a >= b THEN a ELSE b

\* the number of positions of s at which w occurs
Occurrences(s, w) ==
    Cardinality({i \in 1..(Len(s) - Len(w) + 1) : SubSeq(s, i, i + Len(w) - 1) = w})

\* the dict d maps k to v
Maps(d, k, v) == \E i \in 1..Len(d) : d[i] = <<k, v>>

\* the tokens of a text that extract_keywords does not filter out
Survivors(text) ==
    {t \in Range(FindTokens(Lower(text), 1)) :
        t \notin STOPWORDS /\ ~IsDigitStr(t) /\ Len(t) > 2}

\* C1 as stated (under SpecKeywords): for every text and every top_k the
\* list extract_keywords returns has no duplicate, no stopword, no token of
\* length <= 2 and at most top_k entries, the fallback list included.
C1_KeywordsAsClaimed ==
    pc = "done" =>
        /\ NoDuplicates(ret)
        /\ \A t \in Range(ret) : t \notin STOPWORDS /\ Len(t) > 2
        /\ Len(ret) <= arg.top_k

\* C1 amended (under SpecKeywords): the list has no duplicate and no
\* stopword; when some token of the text survives the filters it has no
\* token of length <= 2 and at most max(top_k, 1) entries; when none does it
\* is the fallback list data, analytics, python, ai, whatever top_k is.
C1_KeywordsContract ==
    pc = "done" =>
        /\ NoDuplicates(ret)
        /\ \A t \in Range(ret) : t \notin STOPWORDS
        /\ IF Survivors(arg.text) = {}
           THEN ret = <<"data", "analytics", "python", "ai">>
           ELSE /\ \A t \in Range(ret) : Len(t) > 2
                /\ Len(ret) <= Max(arg.top_k, 1)

\* a call that dropped a repeated token and stopped at top_k = 2 keywords
C1_Witness ==
    /\ pc = "done"
    /\ arg.text = "python Python c++"
    /\ arg.top_k = 2
    /\ ret = <<"python", "c++">>

\* C2 as stated (under SpecParse): on the example query the keywords include
\* generative, product, managers, case, studies, coding and certificate and
\* exclude for, no and on; extras has duration = short and
\* certificate = required.
C2_ExampleAsClaimed ==
    (pc = "done" /\ arg.user_text = EXAMPLE_QUERY) =>
        /\ {"generative", "product", "managers", "case", "studies", "coding",
            "certificate"} \subseteq Range(ret.keywords)
        /\ Range(ret.keywords) \cap {"for", "no", "on"} = {}
        /\ Maps(ret.extras, "duration", "short")
        /\ Maps(ret.extras, "certificate", "required")

\* C2 amended (under SpecParse): on the example query the keywords include
\* generative, product, managers, case, studies and coding and exclude
\* certificate (a stopword), for, no and on; extras has duration = short and
\* certificate = required.
C2_ExampleIntent ==
    (pc = "done" /\ arg.user_text = EXAMPLE_QUERY) =>
        /\ {"generative", "product", "managers", "case", "studies", "coding"}
               \subseteq Range(ret.keywords)
        /\ Range(ret.keywords) \cap {"certificate", "for", "no", "on"} = {}
        /\ Maps(ret.extras, "duration", "short")
        /\ Maps(ret.extras, "certificate", "required")

\* the example query has been parsed
C2_Witness ==
    /\ pc = "done"
    /\ arg.user_text = EXAMPLE_QUERY
    /\ Len(ret.keywords) = 7
    /\ ret.topic = "Crash Generative"

\* C3 as stated (under Spec): in the intent handed to make_query_variants
\* every override that is set wins: certificate = required, duration = short
\* and price = free_preferred when their toggles are on, and with a level
\* preference other than Any no auto-detected level other than the selected
\* one is left in the intent's level.
C3_OverrideWins ==
    \A i \in 1..Len(effective) :
        /\ must_have_cert => Maps(effective[i].extras, "certificate", "required")
        /\ short_format => Maps(effective[i].extras, "duration", "short")
        /\ free_only => Maps(effective[i].extras, "price", "free_preferred")
        /\ (level_pref # "Any" /\ effective[i].level # None)
               => effective[i].level = Lower(level_pref)

\* v.strip().lower(), the form two variants are compared in
Normalized(v) == Lower(Strip(v))

\* C4 (under SpecVariants): make_query_variants returns at most 4 entries,
\* no two of them equal after trimming and lower-casing, and they are
\* candidates in generation order, each the first candidate of its
\* normalized form.
C4_VariantsDistinctInOrder ==
    pc = "done" =>
        LET cands == VariantCandidates(arg.pi, arg.raw_text)
        IN  /\ Len(ret) <= 4
            /\ \A i, j \in 1..Len(ret) :
                   i # j => Normalized(ret[i]) # Normalized(ret[j])
            /\ \E f \in [1..Len(ret) -> 1..Len(cands)] :
                   /\ \A k \in 1..Len(ret) :
                          /\ ret[k] = cands[f[k]]
                          /\ \A m \in 1..(f[k] - 1) :
                                 Normalized(cands[m]) # Normalized(cands[f[k]])
                   /\ \A k, l \in 1..Len(ret) : k < l => f[k] < f[l]

\* a call in which a later candidate differing only in case and blanks from
\* an earlier one was dropped
C4_Witness ==
    /\ pc = "done"
    /\ LET cands == VariantCandidates(arg.pi, arg.raw_text)
       IN  /\ Len(ret) < Len(cands)
           /\ \E i, j \in 1..Len(cands) :
                  /\ i < j
                  /\ cands[i] # cands[j]
                  /\ Strip(cands[i]) # ""
                  /\ Normalized(cands[i]) = Normalized(cands[j])

\* C5 (under SpecVariants): for an intent whose keyword list is not empty
\* and any raw text, the empty one included, make_query_variants returns at
\* least one entry.
C5_VariantsNonEmpty ==
    (pc = "done" /\ arg.pi.keywords # <<>>) => Len(ret) >= 1

\* a call with keywords only: no topic, no level, blank raw text
C5_Witness ==
    /\ pc = "done"
    /\ arg.pi.keywords # <<>>
    /\ arg.pi.topic = ""
    /\ arg.pi.level = None
    /\ arg.raw_text = ""
    /\ Len(ret) = 1

\* C6 (under Spec): when the pipeline has run, the effective platforms are
\* the selection restricted to Simpliv in "Online Trainings" mode, the whole
\* selection together with the caveat warning in "Onsite Trainings" mode,
\* and the selection unchanged in the other two modes; every rendered link
\* is for a generated variant and a platform of that effective set.
C6_EffectivePlatformsByMode ==
    parsed # <<>> =>
        /\ training_mode = "Online Trainings (Simpliv)" =>
               /\ Range(effective_platforms) = Range(platforms) \cap {"Simpliv"}
               /\ Len(effective_platforms) <= 1
        /\ training_mode = "Onsite Trainings (coming soon)" =>
               /\ ONSITE_WARNING \in Range(warnings)
               /\ effective_platforms = platforms
        /\ training_mode \in {"Online Courses", "Mixed / Any"} =>
               effective_platforms = platforms
        /\ \A c \in 1..Len(links) :
               /\ links[c].qv = variants[links[c].variant]
               /\ \A l \in 1..Len(links[c].links) :
                      links[c].links[l].pf \in Range(effective_platforms)

\* a run in "Online Trainings" mode with all four platforms selected, whose
\* cards link to Simpliv alone
C6_Witness ==
    /\ parsed # <<>>
    /\ training_mode = "Online Trainings (Simpliv)"
    /\ platforms = PLATFORMS
    /\ links # <<>>
    /\ \A c \in 1..Len(links) :
           Len(links[c].links) = 1 /\ links[c].links[1].pf = "Simpliv"

\* the text has a character that is not whitespace
HasNonWhitespace(text) == \E i \in 1..Len(text) : ~IsSpace(Ch(text, i))

\* C7 (under Spec): a button press on empty or whitespace-only text shows
\* the warning and nothing else (no intent, no variant, no link); a press on
\* any other text runs the pipeline once and does not show that warning;
\* without a press neither happens.
C7_EmptyTextOnlyWarns ==
    /\ (go /\ ~HasNonWhitespace(user_text)) =>
           /\ warnings = <<EMPTY_TEXT_WARNING>>
           /\ parsed = <<>> /\ effective = <<>> /\ chips = <<>>
           /\ variants = <<>> /\ links = <<>>
    /\ (go /\ HasNonWhitespace(user_text)) =>
           /\ Len(parsed) = 1 /\ Len(effective) = 1
           /\ variants # <<>> /\ Len(links) = Len(variants)
           /\ EMPTY_TEXT_WARNING \notin Range(warnings)
    /\ ~go =>
           /\ warnings = <<>>
           /\ parsed = <<>> /\ effective = <<>> /\ chips = <<>>
           /\ variants = <<>> /\ links = <<>>

\* the button pressed on a text of whitespace only
C7_Witness ==
    /\ go
    /\ user_text = " \n"
    /\ warnings = <<EMPTY_TEXT_WARNING>>
    /\ variants = <<>>

\* the search endpoint of each known platform
SearchEndpoint(platform) ==
    CASE platform = "Coursera" -> "https://www.coursera.org/search?query="
      [] platform = "Udemy" -> "https://www.udemy.com/courses/search/?q="
      [] platform = "Simpliv" -> "https://www.simplivlearning.com/search?query="
      [] platform = "Educative" -> "https://www.educative.io/search?query="

\* C8 (under SpecSearchUrl): for a known platform search_url returns the
\* platform's endpoint followed by an encoded query with no literal space
\* and no literal ampersand, every space become "+" and every "&" become
\* "%26"; for any other platform identifier it returns "#".
C8_SearchUrlEncoded ==
    pc = "done" =>
        IF arg.platform \in {"Coursera", "Udemy", "Simpliv", "Educative"}
        THEN LET pre == SearchEndpoint(arg.platform)
                 enc == SubSeq(ret, Len(pre) + 1, Len(ret))
             IN  /\ Len(ret) >= Len(pre)
                 /\ SubSeq(ret, 1, Len(pre)) = pre
                 /\ Occurrences(enc, " ") = 0
                 /\ Occurrences(enc, "&") = 0
                 /\ Occurrences(enc, "+") = Occurrences(arg.query, " ")
                 /\ Occurrences(enc, "%26") = Occurrences(arg.query, "&")
        ELSE ret = "#"

\* a Udemy link for a query holding a space and an ampersand
C8_Witness ==
    /\ pc = "done"
    /\ arg.platform = "Udemy"
    /\ arg.query = " &"
    /\ ret = "https://www.udemy.com/courses/search/?q=+%26"

\* C9 as stated (under Spec): every ParsedIntent built has a keyword list
\* without duplicates, the one parse_query_noai returns and the one handed
\* to make_query_variants after the level and modality terms are appended.
C9_KeywordsUnique ==
    /\ \A i \in 1..Len(parsed) : NoDuplicates(parsed[i].keywords)
    /\ \A i \in 1..Len(effective) : NoDuplicates(effective[i].keywords)

\* the marker phrases of a category
MarkersOf(dict, key) == dict[CHOOSE i \in 1..Len(dict) : dict[i].key = key].words

\* the positions, in the declared order, of the categories with a marker
\* phrase occurring in the lower-cased text
MatchingCategories(dict, order, text) ==
    {i \in 1..Len(order) : \E w \in MarkersOf(dict, order[i]) : Contains(Lower(text), w)}

\* C10 (under SpecClassify): extract_level and extract_modality return the
\* first category, in the order beginner, intermediate, advanced and
\* online_course, online_training, onsite_training, one of whose marker
\* phrases occurs in the lower-cased text as a substring, and None exactly
\* when no category has one.
C10_FirstCategoryWins ==
    pc = "done" =>
        LET dict == IF ret.fn = "extract_level" THEN LEVEL_WORDS ELSE MODALITY_WORDS
            order == IF ret.fn = "extract_level"
                     THEN <<"beginner", "intermediate", "advanced">>
                     ELSE <<"online_course", "online_training", "onsite_training">>
            hits == MatchingCategories(dict, order, arg.text)
        IN  IF hits = {} THEN ret.value = None
            ELSE ret.value = order[CHOOSE i \in hits : \A j \in hits : i <= j]

\* a text with markers of all three levels, the advanced one first in the
\* text and inside a longer word, classified beginner
C10_Witness ==
    /\ pc = "done"
    /\ ret.fn = "extract_level"
    /\ arg.text = "product MIDDLE Intro"
    /\ ret.value = "beginner"

====
